---- MODULE Spec2Model ----
(***************************************************************************)
(* Rental-agreement assistant: the tool-routing agent loop of              *)
(* backend/agent/agent_graph.py (llm_node <-> tools), the tools it calls,  *)
(* and the document store the upload endpoints fill.                       *)
(*                                                                         *)
(* Texts are sequences of string tokens: a message content is the sequence *)
(* of the parts the code concatenates, so that what a text embeds stays    *)
(* visible.                                                                *)
(***************************************************************************)
EXTENDS Integers, Sequences, FiniteSets, TLC

(***************************************************************************)
(* Bounds of the model.                                                    *)
(***************************************************************************)
MaxToolCalls == 2
MaxChunks == 2

Users == {"u1", "u2"}
Placeholder == "your_user_id"
Absent == "NOT_SET"
NotPassed == "NOT_PASSED"
ModelUserIds == {Absent, Placeholder} \cup Users
Queries == {<<"q">>}

(***************************************************************************)
(* Turns (langchain messages).                                             *)
(***************************************************************************)
HumanMessage(c) ==
    [type |-> "human", content |-> c, tool_calls |-> <<>>, tool_call_id |-> ""]

AIMessage(c, tcs) ==
    [type |-> "ai", content |-> c, tool_calls |-> tcs, tool_call_id |-> ""]

ToolMessage(c, id) ==
    [type |-> "tool", content |-> c, tool_calls |-> <<>>, tool_call_id |-> id]

SystemMessage(c) ==
    [type |-> "system", content |-> c, tool_calls |-> <<>>, tool_call_id |-> ""]

system_prompt == <<"You are a helpful AI assistant for rental agreement analysis.">>

Last(s) == s[Len(s)]

(***************************************************************************)
(* The tools bound to the model, and the other names call_tool_node        *)
(* distinguishes.                                                          *)
(***************************************************************************)
ScopedTools ==
    {"firestore_search", "set_rent_reminder", "get_days_until_rent", "get_structured_info"}

TextTools == {"summarize_agreement", "extract_structured_info"}

tools == ScopedTools \cup TextTools

\* names of the module's globals that are not tools: one with an invoke
\* method, one plain callable
GlobalsWithInvoke == {"agent_executor"}
GlobalsCallable == {"get_session_history"}
module_globals == tools \cup GlobalsWithInvoke \cup GlobalsCallable

ToolNames == module_globals \cup {"no_such_tool"}

VARIABLES
    messages,            \* AgentState.messages of the request in flight
    user_id,             \* AgentState.user_id of the request in flight
    pc,                  \* "idle", "llm_node", "tools", "END"
    llm_log,             \* the model invocations of the request, in order
    tool_log,            \* the tool invocations of the request, in order
    tool_runs,           \* how many times the tool node ran in the request
    rental_agreements,   \* Firestore collection of text chunks (insertion order)
    processed_documents, \* Firestore collection "processed_documents", keyed by filename
    reminders,           \* Firestore collection "reminders", keyed by document id
    stored_by,           \* history: which upload (by whom) stored which chunk text
    today,               \* datetime.now().date(), as [year, month, day]
    http                 \* the last answer of an endpoint, with what it was asked

vars ==
    <<messages, user_id, pc, llm_log, tool_log, tool_runs,
      rental_agreements, processed_documents, reminders, stored_by, today, http>>

(***************************************************************************)
(* The hosted model, as a stub: what an invocation can return or raise.    *)
(***************************************************************************)
LlmText == <<"LLM_TEXT">>

\* error messages of a failed invocation, as word tokens
ErrorTexts ==
    { <<"429", "Too Many Requests">>,
      <<"Resource exhausted">>,
      <<"Quota", "exceeded">>,
      <<"connection", "reset">> }

Lower(w) == IF w = "Quota" THEN "quota" ELSE w

Contains(err, w) == \E i \in 1..Len(err) : err[i] = w

ContainsLower(err, w) == \E i \in 1..Len(err) : Lower(err[i]) = w

\* variant: "quota" looked for without lower()
IsQuotaError_case_sensitive(err) ==
    \/ Contains(err, "429")
    \/ Contains(err, "Resource exhausted")
    \/ Contains(err, "quota")

\* "429" in str(e) or "Resource exhausted" in str(e) or "quota" in str(e).lower()
IsQuotaError(err) ==
    \/ Contains(err, "429")
    \/ Contains(err, "Resource exhausted")
    \/ ContainsLower(err, "quota")

ToolCall(name, m, i) == [name |-> name, args |-> [user_id |-> m], id |-> ToString(i)]

\* the tool directives a reply of the tool-bound model can carry: up to
\* MaxToolCalls calls, the model putting the same user_id value in each
Batches(names) ==
    UNION { { [i \in 1..n |-> ToolCall(f[i], m, i)] : f \in [1..n -> names], m \in ModelUserIds }
            : n \in 0..MaxToolCalls }

\* llm_with_tools = llm.bind_tools(tools): replies may name tools
llm_with_tools(names) ==
    { AIMessage(IF b = <<>> THEN LlmText ELSE <<>>, b) : b \in Batches(names) }
        \cup { AIMessage(<<>>, <<>>) }

\* variant: the model of the demystification call can name a tool
llm_naming_tools ==
    { AIMessage(LlmText, <<>>), AIMessage(<<>>, <<>>),
      AIMessage(<<>>, <<ToolCall("get_structured_info", Absent, 1)>>) }

\* llm, no tools bound: replies are plain text, possibly empty
llm == { AIMessage(LlmText, <<>>), AIMessage(<<>>, <<>>) }

(***************************************************************************)
(* call_llm_node                                                           *)
(***************************************************************************)
DefaultQuestion == <<"the rental agreement question">>

RECURSIVE LastHumanContent(_, _)
\* for msg in reversed(messages[:-1]): the most recent HumanMessage among the
\* first k turns
LastHumanContent(msgs, k) ==
    IF k = 0 THEN DefaultQuestion
    ELSE IF msgs[k].type = "human" THEN msgs[k].content
    ELSE LastHumanContent(msgs, k - 1)

original_user_question(msgs) == LastHumanContent(msgs, Len(msgs) - 1)

demystify_prompt(msgs) ==
    <<"The user asked: ">> \o original_user_question(msgs)
        \o <<"I retrieved the following information from their documents:">>
        \o Last(msgs).content
        \o <<"Based on this information, please answer the user's question in a simple, clear, and demystified way.">>

\* variant: the history goes to the model without the system instruction
messages_without_system(msgs) == msgs

messages_with_system(msgs) == <<SystemMessage(system_prompt)>> \o msgs

\* TRUE when the node takes the demystification branch
IsToolTurn(msgs) == Last(msgs).type = "tool"

\* what the node hands to the model: [bound, input]
llm_request(msgs) ==
    IF IsToolTurn(msgs)
    THEN [bound |-> FALSE, input |-> <<HumanMessage(demystify_prompt(msgs))>>]
    ELSE [bound |-> TRUE, input |-> messages_with_system(msgs)]

\* the replies the invoked model can give
llm_replies(msgs, names) ==
    IF IsToolTurn(msgs) THEN llm ELSE llm_with_tools(names)

\* except Exception as llm_error (inner handler, tool-result turn)
fallback_response(err, tool_result) ==
    IF IsQuotaError(err)
    THEN <<"I found the information you requested:">> \o tool_result
            \o <<"Note: I'm experiencing high demand right now, so I provided the raw information.">>
    ELSE <<"Based on your rental agreement:">> \o tool_result

HighDemandText ==
    <<"I'm experiencing high demand right now. Please try your question again in a moment.">>

GenericErrorText ==
    <<"I encountered an error processing your request. Please try rephrasing your question or try again in a moment.">>

\* except Exception as e (outer handler)
error_response(err) ==
    IF IsQuotaError(err) THEN AIMessage(HighDemandText, <<>>)
    ELSE AIMessage(GenericErrorText, <<>>)

NoReply == AIMessage(<<>>, <<>>)

LlmOutcomes(msgs, names) ==
    { [ok |-> TRUE, reply |-> r, err |-> <<>>] : r \in llm_replies(msgs, names) }
        \cup { [ok |-> FALSE, reply |-> NoReply, err |-> e] : e \in ErrorTexts }

\* variant: after a tool result the node answers with the tool's text
call_llm_node_raw(msgs, out) ==
    IF msgs = <<>> THEN AIMessage(<<"I didn't receive any message to process.">>, <<>>)
    ELSE IF IsToolTurn(msgs) THEN AIMessage(Last(msgs).content, <<>>)
    ELSE IF out.ok THEN out.reply
         ELSE error_response(out.err)

\* the turn the node returns, given what the invocation did
call_llm_node(msgs, out) ==
    IF msgs = <<>> THEN AIMessage(<<"I didn't receive any message to process.">>, <<>>)
    ELSE IF IsToolTurn(msgs)
    THEN IF out.ok THEN out.reply
         ELSE AIMessage(fallback_response(out.err, Last(msgs).content), <<>>)
    ELSE IF out.ok THEN out.reply
         ELSE error_response(out.err)

(***************************************************************************)
(* should_continue: the conditional edge after llm_node                    *)
(***************************************************************************)
\* variant: routes on the type of the last turn alone
should_continue_by_type(msgs) ==
    IF Last(msgs).type = "ai" THEN "tools" ELSE "end"

\* variant: routes on any assistant turn of the history that names tools
should_continue_any_turn(msgs) ==
    IF \E k \in 1..Len(msgs) : msgs[k].type = "ai" /\ msgs[k].tool_calls # <<>>
    THEN "tools" ELSE "end"

should_continue(msgs) ==
    IF Last(msgs).type = "ai" /\ Last(msgs).tool_calls # <<>> THEN "tools" ELSE "end"

\* add_conditional_edges("llm_node", should_continue, {"tools": "tools", "end": END})
llm_node_edge(msgs) == IF should_continue(msgs) = "tools" THEN "tools" ELSE "END"

\* variant: the tools node leads to END
tools_edge_to_end == "END"

\* add_edge("tools", "llm_node")
tools_edge == "llm_node"

(***************************************************************************)
(* Firestore helpers: a keyed collection is a function from document ids,  *)
(* the chunk collection a sequence in insertion order (auto ids).          *)
(***************************************************************************)
DocSet(coll, id, data) ==
    [k \in DOMAIN coll \cup {id} |-> IF k = id THEN data ELSE coll[k]]

RECURSIVE SelectSeq2(_, _, _)
\* the elements of s, in order, whose user_id field equals uid
SelectSeq2(s, uid, k) ==
    IF k > Len(s) THEN <<>>
    ELSE (IF s[k].user_id = uid THEN <<s[k]>> ELSE <<>>) \o SelectSeq2(s, uid, k + 1)

\* variant: the query without its where clause
user_docs_query_unfiltered(coll, uid) == coll

\* collection_ref.where("user_id", "==", user_id)
user_docs_query(coll, uid) == SelectSeq2(coll, uid, 1)

Limit(s, n) == SubSeq(s, 1, IF Len(s) < n THEN Len(s) ELSE n)

(***************************************************************************)
(* Embeddings and cosine similarity, in integer arithmetic.                *)
(***************************************************************************)
\* embed_query: the embedding service, a fixed map from a text to a vector
embed_query(text) ==
    IF text = <<>> THEN <<1, 1>>
    ELSE IF text[1] = "q" \/ text[1] = "a" THEN <<1, 0>>
    ELSE IF text[1] = "b" THEN <<0, 1>>
    ELSE <<1, 1>>

Dot(v, w) == v[1] * w[1] + v[2] * w[2]

NormSq(v) == Dot(v, v)

\* x / sqrt(nx) > y / sqrt(ny), for nx, ny > 0
RatioGreater(x, nx, y, ny) ==
    IF x >= 0 /\ y >= 0 THEN x * x * ny > y * y * nx
    ELSE IF x >= 0 THEN TRUE
    ELSE IF y >= 0 THEN FALSE
    ELSE x * x * ny < y * y * nx

\* cos(q, a) > cos(q, b), both vectors of non-zero norm
SimGreater(q, a, b) == RatioGreater(Dot(q, a), NormSq(a), Dot(q, b), NormSq(b))

\* d / sqrt(n) > 0.3, for n > 0
AboveThreshold(d, n) == d > 0 /\ 100 * d * d > 9 * n

\* cos(q, d) > 0.3
SimilarEnough(q, d) == AboveThreshold(Dot(q, d), NormSq(q) * NormSq(d))

RECURSIVE InsertDesc(_, _, _)
\* x placed after every element that is at least as similar (a stable sort)
InsertDesc(q, x, sorted) ==
    IF sorted = <<>> THEN <<x>>
    ELSE IF SimGreater(q, x.embedding, sorted[1].embedding) THEN <<x>> \o sorted
    ELSE <<sorted[1]>> \o InsertDesc(q, x, Tail(sorted))

RECURSIVE SortPrefix(_, _, _)
\* the first k elements of s, most similar first
SortPrefix(q, s, k) ==
    IF k = 0 THEN <<>> ELSE InsertDesc(q, s[k], SortPrefix(q, s, k - 1))

\* similarities.sort(key=similarity, reverse=True)
SortDesc(q, s) == SortPrefix(q, s, Len(s))

RECURSIVE WithEmbedding(_, _, _)
\* the documents with a stored embedding of non-zero norm (query norm too)
WithEmbedding(q, s, k) ==
    IF k > Len(s) THEN <<>>
    ELSE (IF s[k].embedding # <<>> /\ NormSq(q) > 0 /\ NormSq(s[k].embedding) > 0
          THEN <<s[k]>> ELSE <<>>) \o WithEmbedding(q, s, k + 1)

RECURSIVE Relevant(_, _, _)
\* if result['similarity'] > 0.3
Relevant(q, s, k) ==
    IF k > Len(s) THEN <<>>
    ELSE (IF SimilarEnough(q, s[k].embedding) THEN <<s[k]>> ELSE <<>>)
            \o Relevant(q, s, k + 1)

NearestLimit == 5
FetchLimit == 50
TextLimit == 800

RECURSIVE FormatNearest(_, _)
\* "Text: {original_text}\nSource: {source_file}" joined by blank lines
FormatNearest(docs, k) ==
    IF k > Len(docs) THEN <<>>
    ELSE <<"Text: ">> \o docs[k].original_text \o <<"Source: ", docs[k].source_file>>
            \o FormatNearest(docs, k + 1)

Truncate(text) ==
    IF Len(text) > TextLimit THEN SubSeq(text, 1, TextLimit) \o <<"...">> ELSE text

RECURSIVE FormatManual(_, _)
\* "Text: {text[:800]}...\nSource: {source} ({page})"
FormatManual(docs, k) ==
    IF k > Len(docs) THEN <<>>
    ELSE <<"Text: ">> \o Truncate(docs[k].original_text)
            \o <<"Source: ", docs[k].source_file, docs[k].source_page>>
            \o FormatManual(docs, k + 1)

(***************************************************************************)
(* The tools.  db is the state of the document store as the call finds it: *)
(* "nn" (the vector index answers), "manual" (find_nearest raises, plain   *)
(* queries work), "down" (every Firestore call raises).                    *)
(***************************************************************************)
DbStates == {"nn", "manual", "down"}

InvalidUserIds == {"", Placeholder, "None"}

\* the nearest-neighbour path: find_nearest(limit=5) on the filtered query
nearest_docs(coll, q, uid) ==
    Limit(SortDesc(q, WithEmbedding(q, user_docs_query(coll, uid), 1)), NearestLimit)

\* variant: the first 5 in stored order, not ranked
manual_docs_unsorted(q, sims) == Relevant(q, Limit(sims, NearestLimit), 1)

\* the manual-similarity path: the documents with a similarity, ranked, cut
\* to 5, those above the threshold
manual_docs(q, sims) == Relevant(q, Limit(SortDesc(q, sims), NearestLimit), 1)

NoDocumentsText ==
    <<"No rental agreements found for your account. Please upload a document first.">>

\* the answer of the nearest-neighbour path for the documents it found
nearest_answer(coll, uid, results) ==
    IF results = <<>>
    THEN IF user_docs_query(coll, uid) = <<>>
         THEN [content |-> NoDocumentsText, returned |-> <<>>]
         ELSE [content |-> <<"No relevant information found in your rental agreements for this specific query.">>,
               returned |-> <<>>]
    ELSE [content |-> FormatNearest(results, 1), returned |-> results]

\* the answer of the manual path for the ranked documents it kept
manual_ranked_answer(sims, kept) ==
    IF sims = <<>>
    THEN [content |-> <<"No documents with embeddings found. Please re-upload your documents.">>,
          returned |-> <<>>]
    ELSE IF kept = <<>>
    THEN [content |-> <<"No sufficiently relevant information found for your query in the rental agreements.">>,
          returned |-> <<>>]
    ELSE [content |-> FormatManual(kept, 1), returned |-> kept]

\* the manual path on the embeddings of the fetched documents
manual_similarity_answer(q, sims) == manual_ranked_answer(sims, manual_docs(q, sims))

\* the manual path for the documents fetched with limit(50)
manual_answer(q, fetched) ==
    IF fetched = <<>>
    THEN [content |-> NoDocumentsText, returned |-> <<>>]
    ELSE manual_similarity_answer(q, WithEmbedding(q, fetched, 1))

\* firestore_search(query, user_id): [content, returned]
firestore_search(coll, query, uid, db) ==
    IF uid \in InvalidUserIds
    THEN [content |-> <<"Error: Invalid user ID received. Please ensure you're logged in correctly.">>,
          returned |-> <<>>]
    ELSE IF db = "nn"
    THEN nearest_answer(coll, uid, nearest_docs(coll, embed_query(query), uid))
    ELSE IF db = "manual"
    THEN manual_answer(embed_query(query), Limit(user_docs_query(coll, uid), FetchLimit))
    ELSE [content |-> <<"Search failed">>, returned |-> <<>>]

ReminderDate == "5th"

\* set_rent_reminder(rent_due_date, user_id): [content, reminders]
set_rent_reminder(rems, rent_due_date, uid, db) ==
    IF db = "down"
    THEN [content |-> <<"Failed to set reminder">>, reminders |-> rems]
    ELSE [content |-> <<"Rent reminder successfully set for the ", rent_due_date,
                        " of each month for user ", uid>>,
          reminders |-> DocSet(rems, uid, [rent_due_date |-> rent_due_date, status |-> "scheduled"])]

\* the processed documents of a user, in key order of the small key set
UserProcessed(docs, uid) == { f \in DOMAIN docs : docs[f].user_id = uid }

\* get_structured_info(user_id): the text it returns
get_structured_info(docs, uid, db) ==
    IF uid \in InvalidUserIds \cup {"user_id"}
    THEN <<"Error: Invalid user ID received. Please ensure you're logged in correctly.">>
    ELSE IF db = "down" THEN <<"Error retrieving structured information">>
    ELSE IF UserProcessed(docs, uid) = {}
    THEN <<"No rental agreements found for your account. Please upload a document first.">>
    ELSE <<"Here's the structured information from your rental agreements:", uid>>

Get(d, k, default) == IF k \in DOMAIN d THEN d[k] ELSE default

(***************************************************************************)
(* Dates: datetime.date and relativedelta(months=1).                       *)
(***************************************************************************)
DaysInMonth(y, m) ==
    IF m = 2 THEN (IF (y % 4 = 0 /\ y % 100 # 0) \/ y % 400 = 0 THEN 29 ELSE 28)
    ELSE IF m \in {4, 6, 9, 11} THEN 30
    ELSE 31

Date(y, m, d) == [year |-> y, month |-> m, day |-> d]

RECURSIVE DaysBeforeMonth(_, _)
\* the days of year y before its month m
DaysBeforeMonth(y, m) ==
    IF m = 1 THEN 0 ELSE DaysBeforeMonth(y, m - 1) + DaysInMonth(y, m - 1)

FirstYear == 2024

RECURSIVE DaysBeforeYear(_)
\* the days from 1 January of FirstYear to 1 January of y
DaysBeforeYear(y) ==
    IF y = FirstYear THEN 0
    ELSE DaysBeforeYear(y - 1) + DaysBeforeMonth(y - 1, 12) + DaysInMonth(y - 1, 12)

\* date.toordinal(), counted from 1 January of FirstYear
ToOrdinal(date) == DaysBeforeYear(date.year) + DaysBeforeMonth(date.year, date.month) + date.day

\* date + relativedelta(months=1): the same day of the next month, cut to
\* the length of that month
PlusOneMonth(date) ==
    IF date.month = 12
    THEN Date(date.year + 1, 1, date.day)
    ELSE Date(date.year, date.month + 1,
              IF date.day > DaysInMonth(date.year, date.month + 1)
              THEN DaysInMonth(date.year, date.month + 1)
              ELSE date.day)

(***************************************************************************)
(* The due-date strings of the model and their characters.                 *)
(***************************************************************************)
DigitChars == <<"0", "1", "2", "3", "4", "5", "6", "7", "8", "9">>

OrdinalSuffix(n) ==
    IF n \in {11, 12, 13} THEN <<"t", "h">>
    ELSE IF n % 10 = 1 THEN <<"s", "t">>
    ELSE IF n % 10 = 2 THEN <<"n", "d">>
    ELSE IF n % 10 = 3 THEN <<"r", "d">>
    ELSE <<"t", "h">>

\* '1st', '5th', ... as the model suggests them for due_date
Ordinal(n) ==
    ToString(n) \o OrdinalSuffix(n)[1] \o OrdinalSuffix(n)[2]

DueDays == 1..31

\* the characters of a due-date string
Chars(str) ==
    IF \E n \in DueDays : str = Ordinal(n)
    THEN LET n == CHOOSE k \in DueDays : str = Ordinal(k)
         IN  (IF n < 10 THEN <<DigitChars[n + 1]>>
              ELSE <<DigitChars[(n \div 10) + 1], DigitChars[(n % 10) + 1]>>)
                 \o OrdinalSuffix(n)
    ELSE IF str = "N/A" THEN <<"N", "/", "A">>
    ELSE IF str = "First of the month" THEN <<"F", "i", "r", "s", "t">>
    ELSE <<>>

RECURSIVE FilterDigits(_, _)
\* ''.join(filter(str.isdigit, due_date_str)), from character k on
FilterDigits(cs, k) ==
    IF k > Len(cs) THEN <<>>
    ELSE (IF \E i \in 1..10 : DigitChars[i] = cs[k] THEN <<cs[k]>> ELSE <<>>)
             \o FilterDigits(cs, k + 1)

RECURSIVE IntOf(_, _)
\* int(digits), of the first k digits
IntOf(digits, k) ==
    IF k = 0 THEN 0
    ELSE 10 * IntOf(digits, k - 1) + (CHOOSE i \in 1..10 : DigitChars[i] = digits[k]) - 1

HasDigit(str) == FilterDigits(Chars(str), 1) # <<>>

\* the sentence of the result
DaysLeftText(days_left, d) ==
    <<"There are ", ToString(days_left), " days left until your next rent payment, which is due on the ",
      ToString(d), " of the month.">>

RentErrorText == <<"An error occurred while calculating the days left">>

\* variant: a day the month does not have is cut to the last day of the month
next_rent_text_clipped(now, d) ==
    IF d < 1 THEN RentErrorText
    ELSE IF d > DaysInMonth(now.year, now.month)
    THEN DaysLeftText(DaysInMonth(now.year, now.month) - now.day, d)
    ELSE IF ToOrdinal(now) > ToOrdinal(Date(now.year, now.month, d))
    THEN DaysLeftText(ToOrdinal(PlusOneMonth(Date(now.year, now.month, d))) - ToOrdinal(now), d)
    ELSE DaysLeftText(ToOrdinal(Date(now.year, now.month, d)) - ToOrdinal(now), d)

\* lines 96-104: next_due_date = today.replace(day=d), moved a month on when
\* it has passed; today.replace(day=d) raises ValueError for a day the
\* month of today does not have, which the outer handler turns into a text
next_rent_text(now, d) ==
    IF d < 1 \/ d > DaysInMonth(now.year, now.month)
    THEN RentErrorText
    ELSE IF ToOrdinal(now) > ToOrdinal(Date(now.year, now.month, d))
    THEN DaysLeftText(ToOrdinal(PlusOneMonth(Date(now.year, now.month, d))) - ToOrdinal(now), d)
    ELSE DaysLeftText(ToOrdinal(Date(now.year, now.month, d)) - ToOrdinal(now), d)

\* lines 86-104, for the due_date of the document found
rent_text(now, due_date_str) ==
    IF due_date_str = "" THEN <<"No rent due date found in your rental agreement.">>
    ELSE IF ~HasDigit(due_date_str)
    THEN <<"Could not parse the rent due date. The format is not a simple number.">>
    ELSE next_rent_text(now, IntOf(FilterDigits(Chars(due_date_str), 1),
                                   Len(FilterDigits(Chars(due_date_str), 1))))

\* get_days_until_rent(user_id): the text it returns (limit(1): one of the
\* user's documents, whichever the store lists first)
get_days_until_rent(docs, uid, db) ==
    IF db = "down" THEN RentErrorText
    ELSE IF UserProcessed(docs, uid) = {}
    THEN <<"No rental agreement found for this user. Please upload a document first.">>
    ELSE rent_text(today, Get(docs[CHOOSE f \in UserProcessed(docs, uid) : TRUE].structured_info,
                              "due_date", ""))

(***************************************************************************)
(* call_tool_node                                                          *)
(***************************************************************************)
ToolFailure == <<"tool raised">>

\* tool_args['user_id'] = state['user_id'], in the branches that do it
inject_user_id(tool_name, tool_args, state_user_id) ==
    IF tool_name \in ScopedTools
    THEN [tool_args EXCEPT !.user_id = state_user_id]
    ELSE tool_args

\* the user_id the callee is handed
received_user_id(tool_name, tool_args, state_user_id) ==
    IF tool_name \in TextTools THEN NotPassed
    ELSE inject_user_id(tool_name, tool_args, state_user_id).user_id

\* a result that leaves the reminders as they are
Unchanging(r, rems) == [content |-> r.content, returned |-> r.returned, reminders |-> rems]

\* a result of a tool that returns text only
TextOnly(r) == [content |-> r.content, returned |-> <<>>, reminders |-> r.reminders]

\* str(result) of one call that does not raise: [content, returned, reminders]
tool_result(tool_name, uid, query, db, coll, docs, rems) ==
    IF tool_name = "firestore_search"
    THEN Unchanging(firestore_search(coll, query, uid, db), rems)
    ELSE IF tool_name = "set_rent_reminder"
    THEN TextOnly(set_rent_reminder(rems, ReminderDate, uid, db))
    ELSE IF tool_name = "get_days_until_rent"
    THEN [content |-> get_days_until_rent(docs, uid, db), returned |-> <<>>, reminders |-> rems]
    ELSE IF tool_name = "get_structured_info"
    THEN [content |-> get_structured_info(docs, uid, db), returned |-> <<>>, reminders |-> rems]
    ELSE IF tool_name \in module_globals
    THEN [content |-> <<"result of ", tool_name>>, returned |-> <<>>, reminders |-> rems]
    ELSE [content |-> <<"Error: Tool '", tool_name, "' not found">>, returned |-> <<>>,
          reminders |-> rems]

\* except Exception as tool_error
tool_error_message(tool_name, tool_call_id) ==
    ToolMessage(<<"Error executing tool '", tool_name, "': ">> \o ToolFailure, tool_call_id)

\* the outcome of one call: the turn appended, the invocation logged, the
\* reminders after it; uid is what the callee is handed, r its result
call_outcome(tool_call, uid, raises, rems, r) ==
    IF tool_call.name \in module_globals /\ raises
    THEN [msg |-> tool_error_message(tool_call.name, tool_call.id),
          log |-> <<[name |-> tool_call.name, id |-> tool_call.id, received |-> uid,
                     raised |-> TRUE, returned |-> <<>>]>>,
          reminders |-> rems]
    ELSE [msg |-> ToolMessage(r.content, tool_call.id),
          log |-> IF tool_call.name \in module_globals
                  THEN <<[name |-> tool_call.name, id |-> tool_call.id, received |-> uid,
                          raised |-> FALSE, returned |-> r.returned]>>
                  ELSE <<>>,
          reminders |-> r.reminders]

\* the call as the callee sees it
invoke_tool(tool_call, uid, raises, query, db, coll, docs, rems) ==
    call_outcome(tool_call, uid, raises, rems,
                 tool_result(tool_call.name, uid, query, db, coll, docs, rems))

\* one iteration of `for tool_call in tool_calls`
run_tool_call(tool_call, state_user_id, raises, query, db, coll, docs, rems) ==
    invoke_tool(tool_call, received_user_id(tool_call.name, tool_call.args, state_user_id),
                raises, query, db, coll, docs, rems)

\* tool_results.append(...)
Accumulate(acc, step) ==
    [tool_results |-> Append(acc.tool_results, step.msg),
     log |-> acc.log \o step.log,
     reminders |-> step.reminders]

StepRaised(step) == step.log # <<>> /\ step.log[1].raised

RECURSIVE run_tool_calls_abort(_, _, _, _, _, _, _, _, _)
RECURSIVE AbortOrGo(_, _, _, _, _, _, _, _, _, _)
AbortOrGo(tool_calls, i, state_user_id, fails, query, db, coll, docs, acc, step) ==
    IF StepRaised(step) THEN Accumulate(acc, step)
    ELSE run_tool_calls_abort(tool_calls, i + 1, state_user_id, fails, query, db, coll, docs,
                              Accumulate(acc, step))

\* variant: the first call that raises ends the loop
run_tool_calls_abort(tool_calls, i, state_user_id, fails, query, db, coll, docs, acc) ==
    IF i > Len(tool_calls) THEN acc
    ELSE AbortOrGo(tool_calls, i, state_user_id, fails, query, db, coll, docs, acc,
                   run_tool_call(tool_calls[i], state_user_id, i \in fails, query, db,
                                 coll, docs, acc.reminders))

RECURSIVE run_tool_calls(_, _, _, _, _, _, _, _, _)
\* the loop over tool_calls from index i on: [tool_results, log, reminders]
run_tool_calls(tool_calls, i, state_user_id, fails, query, db, coll, docs, acc) ==
    IF i > Len(tool_calls) THEN acc
    ELSE run_tool_calls(tool_calls, i + 1, state_user_id, fails, query, db, coll, docs,
                        Accumulate(acc,
                                   run_tool_call(tool_calls[i], state_user_id, i \in fails,
                                                 query, db, coll, docs, acc.reminders)))

\* the assistant turn after the loop: the args dictionaries are the ones of
\* the turn in the state, so the injected user_id stays in the history
args_after(ai_turn, state_user_id) ==
    [ai_turn EXCEPT !.tool_calls =
        [i \in 1..Len(ai_turn.tool_calls) |->
            [ai_turn.tool_calls[i] EXCEPT !.args =
                inject_user_id(ai_turn.tool_calls[i].name, ai_turn.tool_calls[i].args,
                               state_user_id)]]]

\* return {"messages": tool_results}, with the history as the loop left it
node_result(msgs, state_user_id, r) ==
    [tool_results |-> r.tool_results, log |-> r.log, reminders |-> r.reminders,
     history |-> [msgs EXCEPT ![Len(msgs)] = args_after(Last(msgs), state_user_id)]]

\* call_tool_node(state): [tool_results, log, reminders, history]
call_tool_node(msgs, state_user_id, fails, db, coll, docs, rems) ==
    IF msgs = <<>>
    THEN [tool_results |-> <<ToolMessage(<<"Error: No messages to process">>, "error")>>,
          log |-> <<>>, reminders |-> rems, history |-> msgs]
    ELSE IF Last(msgs).tool_calls = <<>>
    THEN [tool_results |-> <<ToolMessage(<<"Error: No tool calls to execute">>, "error")>>,
          log |-> <<>>, reminders |-> rems, history |-> msgs]
    ELSE node_result(msgs, state_user_id,
                     run_tool_calls(Last(msgs).tool_calls, 1, state_user_id, fails,
                                    original_user_question(msgs), db, coll, docs,
                                    [tool_results |-> <<>>, log |-> <<>>, reminders |-> rems]))

(***************************************************************************)
(* upload_document (integrated_server.py)                                  *)
(***************************************************************************)
ChunkSize == 1000

Min(a, b) == IF a < b THEN a ELSE b

\* variant: whole windows only, the shorter rest of the text left out
Chunks_whole_windows(document_text) ==
    [i \in 1..(Len(document_text) \div ChunkSize) |->
        SubSeq(document_text, (i - 1) * ChunkSize + 1, i * ChunkSize)]

\* [document_text[i:i + 1000] for i in range(0, len(document_text), 1000)]
Chunks(document_text) ==
    [i \in 1..((Len(document_text) + ChunkSize - 1) \div ChunkSize) |->
        SubSeq(document_text, (i - 1) * ChunkSize + 1, Min(i * ChunkSize, Len(document_text)))]

\* the record stored for the i-th chunk, counted from 1 (f"page_{i+1}" for
\* the index i of enumerate)
ChunkRecord(chunk, i, filename, uid) ==
    [original_text |-> chunk, embedding |-> embed_query(chunk), source_file |-> filename,
     source_page |-> "page_" \o ToString(i), user_id |-> uid]

FallbackSummary == "Summary generation failed. Please try again or contact support."

InfoKeys ==
    {"property_address", "tenant_name", "landlord_name", "rent_amount", "due_date",
     "duration", "security_deposit_amount"}

\* except Exception as ai_error: the minimal structured info
FallbackInfo ==
    [k \in InfoKeys \cup {"error"} |->
        IF k = "error" THEN "Could not extract structured information" ELSE "N/A"]

\* no endpoint has answered yet
NoResponse == [endpoint |-> "none"]

\* raise HTTPException(status_code=500, detail=str(e))
ServerError == [detail |-> "error"]

SuccessMessage == "Document processed and stored successfully."

\* variant: a reminder for every upload
wants_reminder_always(rent_due_date) == TRUE

\* if rent_due_date != "N/A"
wants_reminder(rent_due_date) == rent_due_date # "N/A"

\* the chunk records one upload adds, in order
NewRecords(chunks, n, filename, uid) ==
    [i \in 1..n |-> ChunkRecord(chunks[i], i, filename, uid)]

NewStoredBy(chunks, n, filename, uid) ==
    { [text |-> chunks[i], file |-> filename, by |-> uid] : i \in 1..n }

\* doc_ref.set({...}) of step 5
ProcessedRecord(filename, summary, structured_info, uid) ==
    [filename |-> filename, summary |-> summary, structured_info |-> structured_info,
     user_id |-> uid]

\* what an upload leaves in http: the request, the answer, and the course
\* the handler took
UploadAnswer(server, uid, filename, document_text, status, body, steps, failed, first, n, invoked) ==
    [endpoint |-> "upload", server |-> server, user |-> uid, filename |-> filename,
     text |-> document_text, status |-> status, body |-> body, steps |-> steps,
     failed |-> failed, first |-> first, stored |-> n, reminder_invoked |-> invoked,
     reminders_before |-> reminders]

UploadSteps == <<"gcs", "docai", "ai", "ingest", "meta", "reminder">>

\* the steps of the integrated upload that fail in the course env, the
\* later ones not being reached when object storage or document
\* understanding fails
EnvFailures(chunks, structured_info, env) ==
    IF ~env.gcs THEN {"gcs"}
    ELSE IF ~env.docai THEN {"docai"}
    ELSE (IF env.ai_ok THEN {} ELSE {"ai"})
            \cup (IF env.stored < Len(chunks) THEN {"ingest"} ELSE {})
            \cup (IF env.meta THEN {} ELSE {"meta"})
            \cup (IF wants_reminder(Get(structured_info, "due_date", "N/A")) /\ env.db = "down"
                  THEN {"reminder"} ELSE {})

\* variant: any failing collaborator ends the request
aborts_on_any_failure(env) == ~env.gcs \/ ~env.docai \/ ~env.ai_ok \/ ~env.meta

\* the steps whose except clause re-raises: object storage and document
\* understanding
aborts(env) == ~env.gcs \/ ~env.docai

\* upload_document(file, X-User-ID) of integrated_server.py.  env: which
\* collaborator calls succeed (gcs, docai, meta), what the AI analysis yields
\* (ai_ok, summary, info), how many chunks are stored before the ingestion
\* loop raises (stored), and the store as the reminder tool finds it (db).
upload_document(uid, filename, document_text, env) ==
    LET chunks == Chunks(document_text)
        summary == IF env.ai_ok THEN env.summary ELSE FallbackSummary
        structured_info == IF env.ai_ok THEN env.info ELSE FallbackInfo
        n == Min(env.stored, Len(chunks))
        rent_due_date == Get(structured_info, "due_date", "N/A")
    IN  /\ Len(rental_agreements) + Len(chunks) <= MaxChunks
        /\ IF aborts(env)
           THEN /\ UNCHANGED <<rental_agreements, processed_documents, reminders, stored_by>>
                /\ http' = UploadAnswer("integrated", uid, filename,
                                        document_text, 500, ServerError,
                                        SubSeq(UploadSteps, 1, IF env.gcs THEN 2 ELSE 1),
                                        EnvFailures(chunks, structured_info, env),
                                        Len(rental_agreements), 0, FALSE)
           ELSE /\ rental_agreements' =
                      rental_agreements \o NewRecords(chunks, n, filename, uid)
                /\ stored_by' = stored_by \cup NewStoredBy(chunks, n, filename, uid)
                /\ processed_documents' =
                      IF env.meta
                      THEN DocSet(processed_documents, filename,
                                  ProcessedRecord(filename, summary, structured_info, uid))
                      ELSE processed_documents
                /\ reminders' =
                      IF wants_reminder(rent_due_date)
                      THEN set_rent_reminder(reminders, rent_due_date, uid, env.db).reminders
                      ELSE reminders
                /\ http' = UploadAnswer("integrated", uid, filename, document_text, 200,
                                        [message |-> SuccessMessage, summary |-> summary,
                                         structured_info |-> structured_info,
                                         filename |-> filename,
                                         chunks_created |-> Len(chunks)],
                                        UploadSteps,
                                        EnvFailures(chunks, structured_info, env),
                                        Len(rental_agreements), n,
                                        wants_reminder(rent_due_date))
        /\ UNCHANGED <<messages, user_id, pc, llm_log, tool_log, tool_runs, today>>

\* upload_document(file, X-User-ID) of main.py: every step inside one try,
\* any exception ends the request with status 500.  failed: the step that
\* raises, 0 when none does
main_upload_document(uid, filename, document_text, env) ==
    LET chunks == Chunks(document_text)
        failed == IF ~env.gcs THEN 1
                  ELSE IF ~env.docai THEN 2
                  ELSE IF ~env.ai_ok THEN 3
                  ELSE IF env.stored < Len(chunks) THEN 4
                  ELSE IF ~env.meta THEN 5
                  ELSE 0
        n == IF failed \in {1, 2, 3} THEN 0 ELSE Min(env.stored, Len(chunks))
        rent_due_date == Get(env.info, "due_date", "N/A")
    IN  /\ Len(rental_agreements) + Len(chunks) <= MaxChunks
        /\ rental_agreements' = rental_agreements \o NewRecords(chunks, n, filename, uid)
        /\ stored_by' = stored_by \cup NewStoredBy(chunks, n, filename, uid)
        /\ processed_documents' =
              IF failed = 0
              THEN DocSet(processed_documents, filename,
                          ProcessedRecord(filename, env.summary, env.info, uid))
              ELSE processed_documents
        /\ reminders' =
              IF failed = 0 /\ wants_reminder(rent_due_date)
              THEN set_rent_reminder(reminders, rent_due_date, uid, env.db).reminders
              ELSE reminders
        /\ http' =
              IF failed = 0
              THEN UploadAnswer("main", uid, filename, document_text, 200,
                                [message |-> SuccessMessage, summary |-> env.summary,
                                 structured_info |-> env.info],
                                UploadSteps,
                                IF wants_reminder(rent_due_date) /\ env.db = "down"
                                THEN {"reminder"} ELSE {},
                                Len(rental_agreements), n, wants_reminder(rent_due_date))
              ELSE UploadAnswer("main", uid, filename, document_text, 500, ServerError,
                                SubSeq(UploadSteps, 1, failed), {UploadSteps[failed]},
                                Len(rental_agreements), n, FALSE)
        /\ UNCHANGED <<messages, user_id, pc, llm_log, tool_log, tool_runs, today>>

(***************************************************************************)
(* get_document_summary and get_user_reminders                             *)
(***************************************************************************)
\* variant: no access check
may_read_any(doc_data, uid) == TRUE

\* not (doc_data.get("user_id") != user_id)
may_read(doc_data, uid) == "user_id" \in DOMAIN doc_data /\ doc_data.user_id = uid

\* get_document_summary(filename, X-User-ID) with the store reachable or
\* not: the request and the answer it gets
get_document_summary(docs, filename, uid, db) ==
    /\ http' = [endpoint |-> "summary", filename |-> filename, user |-> uid, db |-> db]
                   @@ (IF db = "down" THEN [status |-> 500, body |-> ServerError]
                       ELSE IF filename \notin DOMAIN docs
                       THEN [status |-> 404, body |-> [detail |-> "Document not found"]]
                       ELSE IF ~may_read(docs[filename], uid)
                       THEN [status |-> 403, body |-> [detail |-> "Access denied"]]
                       ELSE [status |-> 200,
                             body |-> [filename |-> filename,
                                       summary |-> Get(docs[filename], "summary",
                                                       "Summary not available"),
                                       structured_info |-> Get(docs[filename],
                                                               "structured_info", <<>>)]])
    /\ UNCHANGED <<messages, user_id, pc, llm_log, tool_log, tool_runs,
                   rental_agreements, processed_documents, reminders, stored_by, today>>

\* get_user_reminders(user_id) with the store reachable or not: the request
\* and the answer it gets.  where("user_id", "==", uid) on the keyed
\* collection: the documents that have the field with that value
get_user_reminders(rems, uid, db) ==
    /\ http' = [endpoint |-> "reminders", user |-> uid, db |-> db]
                   @@ (IF db = "down" THEN [status |-> 500, body |-> ServerError]
                       ELSE [status |-> 200,
                             body |-> [reminders |->
                                         { [id |-> id, data |-> rems[id]] :
                                             id \in { k \in DOMAIN rems :
                                                        /\ "user_id" \in DOMAIN rems[k]
                                                        /\ rems[k].user_id = uid } }]])
    /\ UNCHANGED <<messages, user_id, pc, llm_log, tool_log, tool_runs,
                   rental_agreements, processed_documents, reminders, stored_by, today>>

(***************************************************************************)
(* query_agent and the graph steps                                         *)
(***************************************************************************)
\* the date of the first request
StartDate == Date(FirstYear, 1, 1)

\* query_agent: a non-empty query starts the graph with one user turn
StartRequest ==
    /\ pc \in {"idle", "END"}
    /\ \E u \in Users, q \in Queries :
          /\ messages' = <<HumanMessage(q)>>
          /\ user_id' = u
    /\ pc' = "llm_node"
    /\ llm_log' = <<>>
    /\ tool_log' = <<>>
    /\ tool_runs' = 0
    /\ http' = NoResponse
    /\ UNCHANGED <<rental_agreements, processed_documents, reminders, stored_by, today>>

\* one run of llm_node followed by its conditional edge; names and n bound
\* what the stub of the tool-bound model may name
LlmNode(names, n) ==
    /\ pc = "llm_node"
    /\ \E out \in LlmOutcomes(messages, names) :
          /\ Len(out.reply.tool_calls) <= n
          /\ messages' = messages \o <<call_llm_node(messages, out)>>
          /\ llm_log' = Append(llm_log,
                               [bound |-> llm_request(messages).bound,
                                input |-> llm_request(messages).input,
                                history |-> messages,
                                ok |-> out.ok,
                                err |-> out.err,
                                reply |-> out.reply])
          /\ pc' = llm_node_edge(messages \o <<call_llm_node(messages, out)>>)
    /\ UNCHANGED <<user_id, tool_log, tool_runs, rental_agreements, processed_documents,
                   reminders, stored_by, today, http>>

\* one run of the tools node followed by its edge
ToolNode ==
    /\ pc = "tools"
    /\ \E fails \in SUBSET (1..Len(Last(messages).tool_calls)), db \in DbStates :
          \E r \in { call_tool_node(messages, user_id, fails, db, rental_agreements,
                                    processed_documents, reminders) } :
              /\ messages' = r.history \o r.tool_results
              /\ tool_log' = tool_log \o r.log
              /\ reminders' = r.reminders
    /\ tool_runs' = tool_runs + 1
    /\ pc' = tools_edge
    /\ UNCHANGED <<user_id, llm_log, rental_agreements, processed_documents, stored_by,
                   today, http>>

RECURSIVE strip_chars(_, _)
\* str.strip(chars): the text without its leading and trailing characters
\* that are in chars
strip_chars(text, chars) ==
    IF text # <<>> /\ text[1] \in chars THEN strip_chars(Tail(text), chars)
    ELSE IF text # <<>> /\ text[Len(text)] \in chars
    THEN strip_chars(SubSeq(text, 1, Len(text) - 1), chars)
    ELSE text

\* str.strip()
strip(text) == strip_chars(text, {" ", "\n"})

\* variant: only the empty query is refused
is_blank_unstripped(query) == query = <<>>

\* not query or not query.strip()
is_blank(query) == query = <<>> \/ strip(query) = <<>>

GuestUser == "guest-user"

EmptyQueryDetail == "Query cannot be empty"

CouldNotGenerateText ==
    <<"I received your message but couldn't generate a proper response. Please try rephrasing your question.">>

TechnicalDifficultiesText ==
    <<"I'm experiencing technical difficulties. Please try again later.">>

\* what query_agent leaves in http; status 0 while the agent is running
QueryAnswer(query, status, body, raised) ==
    [endpoint |-> "query", query |-> query, status |-> status, body |-> body,
     raised |-> raised]

\* variant: the content of the last turn, whatever it is
query_response_unchecked(msgs) == [response |-> Last(msgs).content]

\* lines 282-290: the answer built from the result of the agent
query_response(msgs) ==
    IF msgs # <<>> /\ Last(msgs).content # <<>>
    THEN [response |-> Last(msgs).content]
    ELSE [response |-> CouldNotGenerateText]

\* query_agent up to the call of the agent: a blank query is refused, any
\* other starts the graph with one user turn, for the user of the header or
\* the guest user when the header is empty
QueryAgent ==
    /\ pc \in {"idle", "END"}
    /\ \E query \in {<<>>, <<" ">>, <<"q">>, <<" ", "q", " ">>}, header \in Users \cup {""} :
          IF is_blank(query)
          THEN /\ http' = QueryAnswer(query, 400, [detail |-> EmptyQueryDetail], FALSE)
               /\ UNCHANGED <<messages, user_id, pc, llm_log, tool_log, tool_runs>>
          ELSE /\ messages' = <<HumanMessage(strip(query))>>
               /\ user_id' = (IF header = "" THEN GuestUser ELSE header)
               /\ pc' = "llm_node"
               /\ llm_log' = <<>>
               /\ tool_log' = <<>>
               /\ tool_runs' = 0
               /\ http' = QueryAnswer(query, 0, [response |-> <<>>], FALSE)
    /\ UNCHANGED <<rental_agreements, processed_documents, reminders, stored_by, today>>

\* query_agent after the agent has returned its result
Respond ==
    /\ pc = "END"
    /\ http.endpoint = "query"
    /\ http.status = 0
    /\ http' = QueryAnswer(http.query, 200, query_response(messages), FALSE)
    /\ UNCHANGED <<messages, user_id, pc, llm_log, tool_log, tool_runs,
                   rental_agreements, processed_documents, reminders, stored_by, today>>

\* agent_executor.invoke raises: except Exception as e
AgentRaises ==
    /\ pc \in {"llm_node", "tools"}
    /\ http.endpoint = "query"
    /\ http.status = 0
    /\ http' = QueryAnswer(http.query, 200,
                           [response |-> TechnicalDifficultiesText,
                            error |-> "Error processing query"], TRUE)
    /\ pc' = "idle"
    /\ UNCHANGED <<messages, user_id, llm_log, tool_log, tool_runs,
                   rental_agreements, processed_documents, reminders, stored_by, today>>

Init ==
    /\ messages = <<>>
    /\ user_id = ""
    /\ pc = "idle"
    /\ llm_log = <<>>
    /\ tool_log = <<>>
    /\ tool_runs = 0
    /\ rental_agreements = <<>>
    /\ processed_documents = <<>>
    /\ reminders = <<>>
    /\ stored_by = {}
    /\ today = StartDate
    /\ http = NoResponse

\* the agent loop with every tool name, on the store as constructed
Next ==
    \/ StartRequest
    \/ LlmNode(ToolNames, MaxToolCalls)
    \/ ToolNode

Spec == Init /\ [][Next]_vars

(***************************************************************************)
(* The store filled by uploads, searched by requests.                      *)
(***************************************************************************)
Files == {"lease.pdf"}
Texts == {<<"a">>, <<"b">>}

ExtractedInfo == [k \in InfoKeys |-> IF k = "due_date" THEN "5th" ELSE "N/A"]

AllOk ==
    [gcs |-> TRUE, docai |-> TRUE, ai_ok |-> TRUE, summary |-> "summary", info |-> ExtractedInfo,
     stored |-> MaxChunks, meta |-> TRUE, db |-> "nn"]

\* the runs of an upload considered: all well, object storage down, the
\* analysis failing, the ingestion loop raising at its first chunk
StoreEnvs ==
    { AllOk,
      [AllOk EXCEPT !.gcs = FALSE],
      [AllOk EXCEPT !.ai_ok = FALSE],
      [AllOk EXCEPT !.stored = 0] }

Upload ==
    \E u \in Users, f \in Files, t \in Texts, env \in StoreEnvs :
        upload_document(u, f, t, env)

NextStore ==
    \/ Upload
    \/ StartRequest
    \/ LlmNode({"firestore_search"}, 1)
    \/ ToolNode

SpecStore == Init /\ [][NextStore]_vars

(***************************************************************************)
(* The endpoints of the two servers on one store.                          *)
(***************************************************************************)
\* the result of extract_structured_info for a reply that is not JSON
ExtractionError ==
    [error |-> "Could not extract structured info. LLM response was not valid JSON."]

\* the courses of an upload considered: all well with each extraction
\* result (every key found, every key "N/A", the error object), the reminder
\* tool finding the store down, each step failing alone, and ingestion and
\* metadata storage failing together
UploadEnvs ==
    { [AllOk EXCEPT !.info = i] :
        i \in {ExtractedInfo, [k \in InfoKeys |-> "N/A"], ExtractionError} }
    \cup { [AllOk EXCEPT !.db = "down"],
           [AllOk EXCEPT !.gcs = FALSE],
           [AllOk EXCEPT !.docai = FALSE],
           [AllOk EXCEPT !.ai_ok = FALSE],
           [AllOk EXCEPT !.stored = 0],
           [AllOk EXCEPT !.meta = FALSE],
           [AllOk EXCEPT !.stored = 0, !.meta = FALSE] }

\* an upload to integrated_server.py, of one of texts in one of the courses
UploadIntegrated(texts, envs) ==
    \E u \in Users, f \in Files, t \in texts, env \in envs :
        upload_document(u, f, t, env)

\* an upload to main.py
UploadMain(texts, envs) ==
    \E u \in Users, f \in Files, t \in texts, env \in envs :
        main_upload_document(u, f, t, env)

NextUpload ==
    \/ UploadIntegrated(Texts, UploadEnvs)
    \/ UploadMain(Texts, UploadEnvs)
    \/ \E filename \in {"lease.pdf", "other.pdf"}, uid \in Users \cup {GuestUser},
          db \in {"nn", "down"} :
           get_document_summary(processed_documents, filename, uid, db)
    \/ \E uid \in Users, db \in {"nn", "down"} : get_user_reminders(reminders, uid, db)

SpecUpload == Init /\ [][NextUpload]_vars

\* the query endpoint with the agent behind it, on the store as constructed
NextQuery ==
    \/ QueryAgent
    \/ LlmNode({"get_structured_info", "no_such_tool"}, 1)
    \/ ToolNode
    \/ Respond
    \/ AgentRaises

SpecQuery == Init /\ [][NextQuery]_vars

(***************************************************************************)
(* get_days_until_rent day by day, for a user whose processed document     *)
(* holds a due date.                                                       *)
(***************************************************************************)
\* the day after
NextDay(date) ==
    IF date.day < DaysInMonth(date.year, date.month)
    THEN Date(date.year, date.month, date.day + 1)
    ELSE IF date.month < 12 THEN Date(date.year, date.month + 1, 1)
    ELSE Date(date.year + 1, 1, 1)

\* midnight passes, up to the last date considered: a leap and a common
\* February lie before it
Tick ==
    /\ today # Date(FirstYear + 1, 3, 31)
    /\ today' = NextDay(today)
    /\ http' = NoResponse
    /\ UNCHANGED <<messages, user_id, pc, llm_log, tool_log, tool_runs,
                   rental_agreements, processed_documents, reminders, stored_by>>

\* get_days_until_rent.invoke({"user_id": uid})
DaysUntilRent ==
    /\ \E uid \in Users, db \in {"nn", "down"} :
          http' = [endpoint |-> "days", user |-> uid, db |-> db,
                   result |-> get_days_until_rent(processed_documents, uid, db)]
    /\ UNCHANGED <<messages, user_id, pc, llm_log, tool_log, tool_runs,
                   rental_agreements, processed_documents, reminders, stored_by, today>>

\* the store holds one processed document of user u1, with any of the due
\* dates or with the error object of a failed extraction
InitRent ==
    /\ messages = <<>>
    /\ user_id = ""
    /\ pc = "idle"
    /\ llm_log = <<>>
    /\ tool_log = <<>>
    /\ tool_runs = 0
    /\ rental_agreements = <<>>
    /\ \E info \in { [ExtractedInfo EXCEPT !.due_date = due] :
                         due \in { Ordinal(n) : n \in DueDays } \cup {"N/A", "First of the month"} }
                     \cup {ExtractionError} :
          processed_documents =
              DocSet(<<>>, "lease.pdf", ProcessedRecord("lease.pdf", "summary", info, "u1"))
    /\ reminders = <<>>
    /\ stored_by = {}
    /\ today = StartDate
    /\ http = NoResponse

NextRent ==
    \/ Tick
    \/ DaysUntilRent

SpecRent == InitRent /\ [][NextRent]_vars

(***************************************************************************)
(* Uploads of texts around the window size.                                *)
(***************************************************************************)
\* texts of the lengths around the window size, the first and the last
\* character of a window marked
LongTexts ==
    { [i \in 1..n |-> IF i % ChunkSize = 1 THEN "a" ELSE IF i % ChunkSize = 0 THEN "z" ELSE "m"] :
        n \in {0, 1, 999, 1000, 1001, 1999, 2000, 2001, 3000} }

\* the course: all well, or the ingestion loop raising at its second chunk
NextChunk ==
    \/ UploadIntegrated(LongTexts, { AllOk, [AllOk EXCEPT !.stored = 1] })
    \/ UploadMain(LongTexts, { AllOk, [AllOk EXCEPT !.stored = 1] })

SpecChunk == Init /\ [][NextChunk]_vars

(***************************************************************************)
(* extract_structured_info: the reply of the model as a sequence of        *)
(* characters and JSON tokens (a quoted string and the number 1 are one    *)
(* token each), json.loads as a scanner over it.                           *)
(***************************************************************************)
\* the character of the code fence (U+0060)
Backtick == "BACKTICK"

\* response.strip().strip(fence + "json").strip(fence), the fence being
\* three backticks
fence_stripped(response) ==
    strip_chars(strip_chars(strip(response), {Backtick, "j", "s", "o", "n"}), {Backtick})

\* the nesting depth at which the scanner raises RecursionError: the
\* recursion limit of the interpreter, scaled to the replies of the model
RecursionLimit == 2

ErrorMessageToken ==
    "\"Could not extract structured info. LLM response was not valid JSON.\""

StringTokens == {"\"error\"", "\"due_date\"", "\"5th\"", ErrorMessageToken}

RECURSIVE SkipWs(_, _)
\* the first position from i on that holds no white space
SkipWs(cs, i) == IF i <= Len(cs) /\ cs[i] \in {" ", "\n"} THEN SkipWs(cs, i + 1) ELSE i

Failure(kind) == [err |-> kind, next |-> 0, val |-> <<>>]

\* a value read, the position after it, the value without white space
Parsed(next, val) == [err |-> "none", next |-> next, val |-> val]

\* after the element of an array or the value of a member, r, that follows
\* the tokens opening: the closing character c ends the array or object
close_container(cs, opening, r, c) ==
    IF r.err # "none" THEN r
    ELSE IF SkipWs(cs, r.next) <= Len(cs) /\ cs[SkipWs(cs, r.next)] = c
    THEN Parsed(SkipWs(cs, r.next) + 1, opening \o r.val \o <<c>>)
    ELSE Failure("JSONDecodeError")

RECURSIVE scan_once(_, _, _)
\* the value that starts at position i; depth counts the arrays and objects
\* open around it, and entering one beyond the limit raises RecursionError
scan_once(cs, i, depth) ==
    IF i > Len(cs) THEN Failure("JSONDecodeError")
    ELSE IF cs[i] \in {"1"} \cup StringTokens THEN Parsed(i + 1, <<cs[i]>>)
    ELSE IF cs[i] \in {"[", "{"} /\ depth > RecursionLimit THEN Failure("RecursionError")
    ELSE IF cs[i] = "["
    THEN IF SkipWs(cs, i + 1) <= Len(cs) /\ cs[SkipWs(cs, i + 1)] = "]"
         THEN Parsed(SkipWs(cs, i + 1) + 1, <<"[", "]">>)
         ELSE close_container(cs, <<"[">>, scan_once(cs, SkipWs(cs, i + 1), depth + 1), "]")
    ELSE IF cs[i] = "{"
    THEN IF SkipWs(cs, i + 1) <= Len(cs) /\ cs[SkipWs(cs, i + 1)] = "}"
         THEN Parsed(SkipWs(cs, i + 1) + 1, <<"{", "}">>)
         ELSE IF /\ SkipWs(cs, i + 1) <= Len(cs)
                 /\ cs[SkipWs(cs, i + 1)] \in StringTokens
                 /\ SkipWs(cs, SkipWs(cs, i + 1) + 1) <= Len(cs)
                 /\ cs[SkipWs(cs, SkipWs(cs, i + 1) + 1)] = ":"
         THEN close_container(cs, <<"{", cs[SkipWs(cs, i + 1)], ":">>,
                              scan_once(cs, SkipWs(cs, SkipWs(cs, SkipWs(cs, i + 1) + 1) + 1),
                                        depth + 1),
                              "}")
         ELSE Failure("JSONDecodeError")
    ELSE Failure("JSONDecodeError")

\* json.loads(text): [err, next, val]; nothing but white space may follow
\* the value
json_loads(cs) ==
    LET r == scan_once(cs, SkipWs(cs, 1), 1)
    IN  IF r.err # "none" THEN r
        ELSE IF SkipWs(cs, r.next) > Len(cs) THEN r
        ELSE Failure("JSONDecodeError")

RECURSIVE json_dumps_indent(_, _)
\* json.dumps(value, indent=2), from token k on: a line break and an
\* indentation inside every non-empty array and object, a blank after a colon
json_dumps_indent(val, k) ==
    IF k > Len(val) THEN <<>>
    ELSE (IF val[k] \in {"[", "{"} /\ val[k + 1] \notin {"]", "}"}
          THEN <<val[k], "\n", " ">>
          ELSE IF val[k] \in {"]", "}"} /\ val[k - 1] \notin {"[", "{"}
          THEN <<"\n", val[k]>>
          ELSE IF val[k] = ":" THEN <<":", " ">>
          ELSE <<val[k]>>)
         \o json_dumps_indent(val, k + 1)

\* json.dumps({"error": "Could not extract structured info. ..."})
ErrorJson == <<"{", "\"error\"", ":", " ", ErrorMessageToken, "}">>

\* extract_structured_info(text), from the reply of llm.invoke(prompt) on,
\* with the try/except around json.loads: [raised, result]
extract_structured_info(response) ==
    LET r == json_loads(fence_stripped(response))
    IN  IF r.err = "none" THEN [raised |-> "none", result |-> json_dumps_indent(r.val, 1)]
        ELSE IF r.err = "JSONDecodeError" THEN [raised |-> "none", result |-> ErrorJson]
        ELSE [raised |-> r.err, result |-> <<>>]

MaxBody == 3

\* the replies of the model considered: an opening fence or none, a body of
\* up to MaxBody tokens or one of three longer ones, a closing fence or none
Replies ==
    { p \o b \o q :
        p \in { <<>>, <<" ">>, <<Backtick, Backtick, Backtick>>,
                <<Backtick, Backtick, Backtick, "j", "s", "o", "n", "\n">> },
        b \in UNION { [1..n -> {"[", "]", "{", "}", "1", "x", ":", "\"due_date\""}] :
                        n \in 0..MaxBody }
              \cup { <<"{", "\"due_date\"", ":", "\"5th\"", "}">>,
                     <<"{", "\n", "\"due_date\"", ":", " ", "\"5th\"", "\n", "}">>,
                     <<"j", "s", "o", "n">> },
        q \in { <<>>, <<"\n">>, <<"\n", Backtick, Backtick, Backtick>> } }

\* extract_structured_info on the reply the model has given
ExtractStructuredInfo ==
    /\ http.endpoint = "reply"
    /\ http' = [endpoint |-> "extract", response |-> http.response,
                raised |-> extract_structured_info(http.response).raised,
                result |-> extract_structured_info(http.response).result]
    /\ UNCHANGED <<messages, user_id, pc, llm_log, tool_log, tool_runs,
                   rental_agreements, processed_documents, reminders, stored_by, today>>

\* llm.invoke(prompt) has returned one of the replies
InitJson ==
    /\ messages = <<>>
    /\ user_id = ""
    /\ pc = "idle"
    /\ llm_log = <<>>
    /\ tool_log = <<>>
    /\ tool_runs = 0
    /\ rental_agreements = <<>>
    /\ processed_documents = <<>>
    /\ reminders = <<>>
    /\ stored_by = {}
    /\ today = StartDate
    /\ \E response \in Replies : http = [endpoint |-> "reply", response |-> response]

SpecJson == InitJson /\ [][ExtractStructuredInfo]_vars

(***************************************************************************)
(* firestore_search on collections of more chunks than it returns.         *)
(***************************************************************************)
MaxStored == 6

\* the collection holds up to MaxStored chunks, each with one of the stored
\* embeddings (of similarity 1, 0.71 and 0.24 to the query, of norm zero, or
\* empty), all of user u1 but at most one; or one chunk more than
\* firestore_search fetches, the last the most similar
InitSearch ==
    /\ messages = <<>>
    /\ user_id = ""
    /\ pc = "idle"
    /\ llm_log = <<>>
    /\ tool_log = <<>>
    /\ tool_runs = 0
    /\ \/ \E n \in 0..MaxStored, other \in {0, 1, MaxStored} :
             \E vs \in [1..n -> {<<1, 0>>, <<1, 1>>, <<1, 4>>, <<0, 0>>, <<>>}] :
                 rental_agreements =
                     [i \in 1..n |->
                         [original_text |-> <<"t">>, embedding |-> vs[i],
                          source_file |-> "lease.pdf", source_page |-> "page_" \o ToString(i),
                          user_id |-> IF i = other THEN "u2" ELSE "u1"]]
       \/ rental_agreements =
             [i \in 1..(FetchLimit + 1) |->
                 [original_text |-> <<"t">>,
                  embedding |-> IF i = FetchLimit + 1 THEN <<1, 0>> ELSE <<1, 1>>,
                  source_file |-> "lease.pdf", source_page |-> "page_" \o ToString(i),
                  user_id |-> "u1"]]
    /\ processed_documents = <<>>
    /\ reminders = <<>>
    /\ stored_by = {}
    /\ today = StartDate
    /\ http = NoResponse

\* firestore_search.invoke({"query": query, "user_id": uid}), the vector
\* index answering or not
FirestoreSearch ==
    /\ http.endpoint = "none"
    /\ \E uid \in Users, query \in Queries, db \in {"nn", "manual"} :
          http' = [endpoint |-> "search", user |-> uid, query |-> query, db |-> db]
                     @@ firestore_search(rental_agreements, query, uid, db)
    /\ UNCHANGED <<messages, user_id, pc, llm_log, tool_log, tool_runs,
                   rental_agreements, processed_documents, reminders, stored_by, today>>

SpecSearch == InitSearch /\ [][FirestoreSearch]_vars

(***************************************************************************)
(* Properties of the tool-routing loop.                                    *)
(***************************************************************************)
\* part occurs in text as a contiguous run of tokens
Embeds(text, part) ==
    /\ part # <<>>
    /\ \E i \in 0..(Len(text) - Len(part)) : SubSeq(text, i + 1, i + Len(part)) = part

IsAssistantTurn(m) == m.type = "ai"

NamesNoTools(m) == m.type = "ai" /\ m.tool_calls = <<>>

NamesTools(m) == m.type = "ai" /\ m.tool_calls # <<>>

\* the user_id values a callee may see without seeing another identity: the
\* one of the state, or none at all
NoForeignIdentity(received) == received \in {user_id, NotPassed, Absent}

\* C1: every tool call the tool node executes hands the callee the user_id of
\* the agent state, whatever user_id the model wrote in the call's arguments.
C1_StateUserIdOverrides ==
    \A i \in 1..Len(tool_log) : NoForeignIdentity(tool_log[i].received)

\* C2: an assistant turn that names no tool is terminal: the graph is at END,
\* the tool node is not entered after it, and the turn sequence stays as it
\* is until query_agent starts the next request.
C2_NoToolsIsTerminal ==
    [][ (messages # <<>> /\ NamesNoTools(Last(messages)))
            => /\ pc = "END"
               /\ pc' # "tools"
               /\ \/ messages' = messages
                  \/ pc' = "llm_node" /\ Len(messages') = 1 /\ messages'[1].type = "human"
      ]_vars

C2_Witness ==
    /\ pc = "END"
    /\ Len(messages) = 2
    /\ NamesNoTools(messages[2])
    /\ llm_log[1].ok
    /\ messages[2] = llm_log[1].reply

\* C3: a tool that raises does not end the request: its failure is a
\* tool-result turn with an error text, control is back at the model node,
\* and when the request has ended an assistant turn follows the error turn.
C3_ToolFailureSurfacesAndContinues ==
    \A i \in 1..Len(tool_log) :
        tool_log[i].raised =>
            \E k \in 1..Len(messages) :
                /\ messages[k].type = "tool"
                /\ messages[k].tool_call_id = tool_log[i].id
                /\ Embeds(messages[k].content, ToolFailure)
                /\ \/ pc = "llm_node"
                   \/ pc = "END" /\ \E j \in (k + 1)..Len(messages) : IsAssistantTurn(messages[j])

C3_Witness ==
    /\ pc = "END"
    /\ \E i \in 1..Len(tool_log) : tool_log[i].raised
    /\ IsAssistantTurn(Last(messages))

RECURSIVE InvokedCalls(_, _)
\* the calls of a batch that reach a callee, in the order named
InvokedCalls(calls, k) ==
    IF k > Len(calls) THEN <<>>
    ELSE (IF calls[k].name \in module_globals THEN <<calls[k]>> ELSE <<>>)
            \o InvokedCalls(calls, k + 1)

Raised(id) == \E j \in 1..Len(tool_log) : tool_log[j].id = id /\ tool_log[j].raised

\* C4: a batch of n >= 1 calls yields exactly n tool-result turns, in the
\* order named, the i-th with the i-th call's id; the callees are invoked in
\* that order; an error text stands for exactly the calls that raised.
C4_BatchResultsInOrder ==
    \A k \in 1..Len(messages) :
        (NamesTools(messages[k]) /\ pc # "tools") =>
            LET calls == messages[k].tool_calls
                n == Len(calls)
                inv == InvokedCalls(calls, 1)
            IN  /\ Len(messages) >= k + n
                /\ \A i \in 1..n :
                      /\ messages[k + i].type = "tool"
                      /\ messages[k + i].tool_call_id = calls[i].id
                      /\ Embeds(messages[k + i].content, ToolFailure) <=> Raised(calls[i].id)
                /\ Len(messages) > k + n => messages[k + n + 1].type # "tool"
                /\ Len(tool_log) = Len(inv)
                /\ \A j \in 1..Len(inv) :
                      tool_log[j].id = inv[j].id /\ tool_log[j].name = inv[j].name

C4_Witness ==
    /\ pc = "llm_node"
    /\ Len(messages) = 4
    /\ NamesTools(messages[2])
    /\ Len(messages[2].tool_calls) = 2
    /\ Raised(messages[2].tool_calls[1].id)
    /\ ~Raised(messages[2].tool_calls[2].id)
    /\ Len(tool_log) = 2
    /\ ~Embeds(messages[4].content, ToolFailure)

MaxPrefix == 2

SampleTurns ==
    { HumanMessage(<<"q">>),
      AIMessage(LlmText, <<>>),
      AIMessage(<<>>, <<ToolCall("firestore_search", Absent, 1)>>),
      ToolMessage(<<"r">>, "1") }

AltPrefixes == UNION { [1..n -> SampleTurns] : n \in 0..MaxPrefix }

\* C5: routing looks at the last turn only: any history that ends with the
\* last turn of the request's history gets the same decision of
\* should_continue and the same kind of model invocation in call_llm_node.
C5_RoutingDependsOnLastTurn ==
    messages # <<>> =>
        \A p \in AltPrefixes :
            /\ should_continue(p \o <<Last(messages)>>) = should_continue(messages)
            /\ llm_request(p \o <<Last(messages)>>).bound = llm_request(messages).bound

C5_Witness ==
    /\ pc = "llm_node"
    /\ Len(messages) > 2
    /\ Last(messages).type = "tool"
    /\ should_continue(messages) = "end"
    /\ ~llm_request(messages).bound
    /\ llm_request(<<messages[1]>>).bound

CannedApologies == {HighDemandText, GenericErrorText}

\* the error messages the substring test takes for quota / rate limiting
QuotaLike(err) ==
    err \in { <<"429", "Too Many Requests">>, <<"Resource exhausted">>, <<"Quota", "exceeded">> }

FailedInvocation == llm_log # <<>> /\ ~Last(llm_log).ok

C7_FullHistoryEveryInvocation ==
    \A i \in 1..Len(llm_log) :
        /\ llm_log[i].bound
        /\ llm_log[i].input = <<SystemMessage(system_prompt)>> \o llm_log[i].history

\* the content of the most recent user turn among the turns before the last
QuestionOf(h) ==
    LET ks == { k \in 1..(Len(h) - 1) : h[k].type = "human" } IN
    h[CHOOSE k \in ks : \A j \in ks : j <= k].content

\* C7 as amended: on a user turn the model is invoked with tools bound on the
\* system instruction followed by the full history; on a tool-result turn the
\* model is invoked without tools on one composed prompt, which holds the
\* most recent user question and the content of the last tool result, and
\* neither the system instruction nor the turns of the history.
C7_InvocationInputs ==
    \A i \in 1..Len(llm_log) :
        LET h == llm_log[i].history
            in == llm_log[i].input
        IN  IF Last(h).type = "tool"
            THEN /\ ~llm_log[i].bound
                 /\ Len(in) = 1
                 /\ in[1].type = "human"
                 /\ Embeds(in[1].content, QuestionOf(h))
                 /\ Embeds(in[1].content, Last(h).content)
                 /\ ~Embeds(in[1].content, system_prompt)
            ELSE /\ llm_log[i].bound
                 /\ in = <<SystemMessage(system_prompt)>> \o h

C7_Witness ==
    /\ Len(llm_log) = 2
    /\ llm_log[1].bound
    /\ ~llm_log[2].bound
    /\ Len(llm_log[2].history) = 4
    /\ llm_log[2].history[3].content # llm_log[2].history[4].content
    /\ ~Embeds(llm_log[2].input[1].content, llm_log[2].history[3].content)

WentThroughTools == pc = "END" /\ tool_runs >= 1

ExposesToolOutput(text) ==
    \E k \in 1..Len(messages) :
        messages[k].type = "tool" /\ Embeds(text, messages[k].content)

ModelAlwaysNamesTools ==
    /\ llm_log # <<>>
    /\ \A i \in 1..Len(llm_log) :
          llm_log[i].ok /\ (llm_log[i].bound => NamesTools(llm_log[i].reply))

C10_SearchReturnsOwnChunks ==
    \A i \in 1..Len(tool_log) :
        tool_log[i].name = "firestore_search" =>
            \A j \in 1..Len(tool_log[i].returned) :
                LET c == tool_log[i].returned[j] IN
                /\ c.user_id = user_id
                /\ [text |-> c.original_text, file |-> c.source_file, by |-> user_id] \in stored_by

C10_Witness ==
    /\ tool_log # <<>>
    /\ tool_log[1].name = "firestore_search"
    /\ tool_log[1].returned # <<>>
    /\ llm_log[1].reply.tool_calls[1].args.user_id \in Users \ {user_id}
    /\ \E k \in 1..Len(rental_agreements) : rental_agreements[k].user_id # user_id
    /\ Embeds(messages[3].content, <<"Source: ", "lease.pdf", "page_1">>)

(***************************************************************************)
(* Properties of the endpoints.                                            *)
(***************************************************************************)
\* C11: get_document_summary hands out the summary and the structured info
\* of a record only to the caller whose X-User-ID is the record's user_id;
\* a missing record gives 404, a record of another user gives 403 with no
\* field of the record in the answer.
C11_SummaryOnlyForOwner ==
    (http.endpoint = "summary" /\ http.db # "down") =>
        IF http.filename \notin DOMAIN processed_documents
        THEN http.status = 404 /\ DOMAIN http.body = {"detail"}
        ELSE IF processed_documents[http.filename].user_id # http.user
        THEN http.status = 403 /\ DOMAIN http.body = {"detail"}
        ELSE /\ http.status = 200
             /\ http.body.summary = processed_documents[http.filename].summary
             /\ http.body.structured_info = processed_documents[http.filename].structured_info

C11_Witness ==
    /\ http.endpoint = "summary"
    /\ http.status = 403
    /\ http.filename \in DOMAIN processed_documents
    /\ processed_documents[http.filename].user_id \in Users \ {http.user}

\* C12: once set_rent_reminder has stored a reminder for a user,
\* get_user_reminders of that user answers with a list that holds it.
C12_RemindersListed ==
    (/\ http.endpoint = "reminders"
     /\ http.status = 200
     /\ http.user \in DOMAIN reminders)
        => \E r \in http.body.reminders :
              r.id = http.user /\ r.data = reminders[http.user]

RECURSIVE DaysTo(_, _, _)
\* k plus the number of days from date to the first date on or after it whose
\* day of the month is d
DaysTo(date, d, k) == IF date.day = d THEN k ELSE DaysTo(NextDay(date), d, k + 1)

\* the due day of the document of u1, when its due date is an ordinal
StoredDueDay == CHOOSE d \in DueDays : processed_documents["lease.pdf"].structured_info.due_date = Ordinal(d)

\* C13: for every date and every stored due day d in 1..31, get_days_until_rent
\* reports the number of days from today to the first date on or after today
\* whose day of the month is d (0 on the due day itself).
C13_DaysUntilNextDueDate ==
    (/\ http.endpoint = "days"
     /\ http.db = "nn"
     /\ http.user = "u1"
     /\ "due_date" \in DOMAIN processed_documents["lease.pdf"].structured_info
     /\ \E d \in DueDays : processed_documents["lease.pdf"].structured_info.due_date = Ordinal(d))
        => http.result = DaysLeftText(DaysTo(today, StoredDueDay, 0), StoredDueDay)

\* the query is empty or holds blanks only
AllBlank(query) == \A i \in 1..Len(query) : query[i] = " "

\* C14: an empty or whitespace-only query is answered with status 400 and
\* "Query cannot be empty", and refusing it leaves the agent untouched: no
\* turn, no model or tool invocation, no move of the graph.
C14_BlankQueryRefused ==
    /\ [](  (http.endpoint = "query" /\ AllBlank(http.query))
            => (http.status = 400 /\ http.body = [detail |-> EmptyQueryDetail]) )
    /\ [][ (http'.endpoint = "query" /\ AllBlank(http'.query))
            => UNCHANGED <<messages, user_id, pc, llm_log, tool_log, tool_runs>> ]_vars

C14_Witness ==
    /\ http.endpoint = "query"
    /\ http.query = <<" ">>
    /\ http.status = 400
    /\ pc = "END"
    /\ Len(llm_log) = 1

\* C15: a query that passes the validation is answered with status 200 and a
\* non-empty "response": the content of the last turn of the finished loop
\* when it is non-empty, the fixed 'couldn't generate' text when it is empty,
\* the fixed 'technical difficulties' text with an "error" field when the
\* agent raised.
C15_QueryAlwaysAnswered ==
    (http.endpoint = "query" /\ ~AllBlank(http.query) /\ http.status # 0) =>
        /\ http.status = 200
        /\ http.body.response # <<>>
        /\ IF http.raised
           THEN /\ http.body.response = TechnicalDifficultiesText
                /\ DOMAIN http.body = {"response", "error"}
           ELSE /\ pc = "END"
                /\ DOMAIN http.body = {"response"}
                /\ http.body.response =
                      IF Last(messages).content # <<>> THEN Last(messages).content
                      ELSE CouldNotGenerateText

C15_Witness ==
    /\ http.endpoint = "query"
    /\ http.status = 200
    /\ ~http.raised
    /\ Last(messages).content = <<>>
    /\ http.body.response = CouldNotGenerateText

\* the answer in http is that of an upload
IsUpload == http.endpoint = "upload"

\* the chunk records the last upload wrote
Written == SubSeq(rental_agreements, http.first + 1, http.first + http.stored)

\* C16: when upload_document answers with its success message, every chunk
\* of the document and the processed-document record of the file (summary,
\* structured info, uploader) are in the document store.
C16_SuccessMeansStored ==
    (IsUpload /\ http.status = 200 /\ http.body.message = SuccessMessage) =>
        /\ Len(Written) = Len(Chunks(http.text))
        /\ \A i \in 1..Len(Chunks(http.text)) :
              /\ i <= Len(Written)
              /\ Written[i].original_text = Chunks(http.text)[i]
              /\ Written[i].user_id = http.user
        /\ http.filename \in DOMAIN processed_documents
        /\ processed_documents[http.filename].user_id = http.user
        /\ processed_documents[http.filename].summary = http.body.summary
        /\ processed_documents[http.filename].structured_info = http.body.structured_info

\* C19: the integrated upload runs object storage, document understanding,
\* AI analysis, chunk ingestion, metadata storage and the reminder in this
\* order; a failure of one of the first two ends it with status 500 and
\* nothing written to the store, a failure of a later step leaves status
\* 200, and a failed AI analysis puts the fallback summary and "N/A" in all
\* seven fields.
C19_UploadFailureHandling ==
    /\ []( (IsUpload /\ http.server = "integrated") =>
            /\ \E k \in 1..Len(UploadSteps) : http.steps = SubSeq(UploadSteps, 1, k)
            /\ http.failed \subseteq { http.steps[k] : k \in 1..Len(http.steps) }
            /\ IF http.failed \cap {"gcs", "docai"} # {}
               THEN /\ http.status = 500
                    /\ http.failed = {Last(http.steps)}
                    /\ http.stored = 0
               ELSE /\ http.status = 200
                    /\ http.steps = UploadSteps
            /\ ("ai" \in http.failed) =>
                  /\ http.body.summary = FallbackSummary
                  /\ \A k \in InfoKeys : http.body.structured_info[k] = "N/A" )
    /\ [][ (http'.endpoint = "upload" /\ http'.server = "integrated" /\ http'.status = 500)
            => UNCHANGED <<rental_agreements, processed_documents, reminders>> ]_vars

C19_Witness ==
    /\ IsUpload
    /\ http.server = "integrated"
    /\ http.status = 200
    /\ http.failed = {"ingest", "meta"}
    /\ http.stored = 0
    /\ rental_agreements = <<>>
    /\ processed_documents = <<>>

\* C20: an upload that comes to its reminder step invokes set_rent_reminder,
\* for the uploader and with the extracted due date, exactly when the
\* structured info has a due_date other than "N/A"; without one (fallback
\* info and extraction error included) no reminder is created or changed.
C20_ReminderOnlyWithDueDate ==
    (IsUpload /\ http.steps = UploadSteps) =>
        /\ http.reminder_invoked
              <=> /\ "due_date" \in DOMAIN http.body.structured_info
                  /\ http.body.structured_info.due_date # "N/A"
        /\ ~http.reminder_invoked => reminders = http.reminders_before
        /\ http.reminder_invoked =>
              /\ \A u \in DOMAIN http.reminders_before \ {http.user} :
                    reminders[u] = http.reminders_before[u]
              /\ DOMAIN reminders \subseteq DOMAIN http.reminders_before \cup {http.user}
              /\ "reminder" \notin http.failed =>
                    reminders[http.user].rent_due_date = http.body.structured_info.due_date

C20_Witness ==
    /\ IsUpload
    /\ http.status = 200
    /\ http.body.structured_info = ExtractionError
    /\ ~http.reminder_invoked
    /\ http.user \in DOMAIN reminders
    /\ reminders = http.reminders_before

RECURSIVE Concat(_, _)
\* the texts of the first k records, one after the other
Concat(records, k) ==
    IF k = 0 THEN <<>> ELSE Concat(records, k - 1) \o records[k].original_text

\* ceil(n / 1000)
WindowCount(n) == (n + 999) \div 1000

\* C18: an upload cuts the text into windows of 1000 characters: the chunks
\* in order give back the text, each is non-empty and at most 1000 long, all
\* but the last exactly 1000, there are ceil(len / 1000) of them, and chunk i
\* (from 0) is stored with source_page "page_{i+1}" and the uploader's id.
C18_ChunksAreWindows ==
    (IsUpload /\ Len(http.steps) >= 4) =>
        /\ Len(Written) <= WindowCount(Len(http.text))
        /\ \A i \in 1..Len(Written) :
              /\ Written[i].original_text # <<>>
              /\ Len(Written[i].original_text) <= 1000
              /\ i < WindowCount(Len(http.text)) => Len(Written[i].original_text) = 1000
              /\ Written[i].source_page = "page_" \o ToString(i)
              /\ Written[i].user_id = http.user
              /\ Written[i].source_file = http.filename
        /\ Concat(Written, Len(Written)) = SubSeq(http.text, 1, Len(Concat(Written, Len(Written))))
        /\ "ingest" \notin http.failed =>
              /\ Len(Written) = WindowCount(Len(http.text))
              /\ Concat(Written, Len(Written)) = http.text
        /\ (http.server = "integrated" /\ http.status = 200) =>
              http.body.chunks_created = WindowCount(Len(http.text))

C18_Witness ==
    /\ IsUpload
    /\ Len(http.text) = 1001
    /\ http.stored = 2
    /\ Len(Written[1].original_text) = 1000
    /\ Written[2].original_text = <<"a">>
    /\ Written[2].source_page = "page_2"

\* C17: whenever the model has replied, extract_structured_info returns a
\* text that parses as JSON: the value of the reply, serialised again, when
\* the reply without its fence markers is valid JSON, and otherwise the
\* object with the single key "error"; no reply makes the tool raise.
C17_ExtractionAlwaysJson ==
    http.endpoint = "extract" =>
        /\ http.raised = "none"
        /\ json_loads(http.result).err = "none"
        /\ IF json_loads(fence_stripped(http.response)).err = "none"
           THEN json_loads(http.result).val = json_loads(fence_stripped(http.response)).val
           ELSE http.result = ErrorJson

\* the structured info of the document of the user of the request, who has
\* at most the document "lease.pdf"
InfoOfCaller == processed_documents["lease.pdf"].structured_info

Ranked ==
    { i \in 1..Len(rental_agreements) :
        /\ rental_agreements[i].user_id = http.user
        /\ Cardinality({ j \in 1..i : rental_agreements[j].user_id = http.user }) <= FetchLimit
        /\ rental_agreements[i].embedding # <<>>
        /\ NormSq(rental_agreements[i].embedding) > 0 }

\* the positions of the chunks of the answer
ReturnedPositions ==
    { i \in Ranked : \E k \in 1..Len(http.returned) : http.returned[k] = rental_agreements[i] }

\* C22: on the manual-similarity path firestore_search returns at most 5
\* texts, all of them ranked chunks of the caller, listed in non-increasing
\* order of cosine similarity to the query, each of similarity above 0.3, and
\* no ranked chunk that is left out is more similar than a returned one.
C22_ManualSearchTopFive ==
    (http.endpoint = "search" /\ http.db = "manual") =>
        /\ Len(http.returned) <= 5
        /\ Cardinality(ReturnedPositions) = Len(http.returned)
        /\ http.returned # <<>> => Len(http.content) = 5 * Len(http.returned)
        /\ \A k \in 1..Len(http.returned) :
              /\ 100 * Dot(embed_query(http.query), http.returned[k].embedding)
                     * Dot(embed_query(http.query), http.returned[k].embedding)
                   > 9 * NormSq(embed_query(http.query)) * NormSq(http.returned[k].embedding)
              /\ Dot(embed_query(http.query), http.returned[k].embedding) > 0
              /\ Embeds(http.content, <<"Source: ", "lease.pdf", http.returned[k].source_page>>)
              /\ \A l \in (k + 1)..Len(http.returned) :
                    ~SimGreater(embed_query(http.query), http.returned[l].embedding,
                                http.returned[k].embedding)
              /\ \A i \in Ranked \ ReturnedPositions :
                    ~SimGreater(embed_query(http.query), rental_agreements[i].embedding,
                                http.returned[k].embedding)

\* five chunks are returned, not in stored order, and a chunk of similarity
\* above 0.3 is left out
C22_Witness ==
    /\ http.endpoint = "search"
    /\ http.db = "manual"
    /\ Len(http.returned) = 5
    /\ http.returned[1].source_page # "page_1"
    /\ \E i \in Ranked \ ReturnedPositions : rental_agreements[i].embedding = <<1, 1>>

(***************************************************************************)
(* Properties of the agent state.                                          *)
(***************************************************************************)
\* C23: while a request is under way, a step of either node leaves user_id as
\* it is and leaves every turn of the history as it is, tool-call arguments
\* included: the new history is the old one with turns appended.
C23_StateOnlyAppended ==
    [][(pc = "llm_node" \/ pc = "tools") =>
          (user_id' = user_id
              /\ Len(messages') >= Len(messages)
              /\ SubSeq(messages', 1, Len(messages)) = messages)]_vars

(***************************************************************************)
(* Properties of repeated uploads.                                         *)
(***************************************************************************)
\* C24: an upload leaves every processed-document record of another user as
\* it is: the record is still there, with the same user_id and the same
\* content, so its owner can still read its summary.
C24_UploadKeepsOthersRecords ==
    [][(http'.endpoint = "upload") =>
          \A f \in DOMAIN processed_documents :
              processed_documents[f].user_id # http'.user =>
                  (f \in DOMAIN processed_documents'
                      /\ processed_documents'[f] = processed_documents[f])]_vars

\* C25: a successful upload that repeats the successful upload before it (the
\* same user, file name, text and analysis, no step failing in either) leaves
\* the stored chunks and the processed documents as the first left them.
C25_RepeatedUploadIdempotent ==
    [][(/\ http.endpoint = "upload"
        /\ http'.endpoint = "upload"
        /\ http.status = 200
        /\ http'.status = 200
        /\ http.failed = {}
        /\ http'.failed = {}
        /\ http'.user = http.user
        /\ http'.filename = http.filename
        /\ http'.text = http.text
        /\ http'.body = http.body)
          => (rental_agreements' = rental_agreements
                 /\ processed_documents' = processed_documents)]_vars

====
